---- MODULE Spec2Model ----
(***************************************************************************)
(* A model of the .gox parser of src/src/parser.rs.                        *)
(*                                                                         *)
(* Byte slices are sequences of naturals 0..255.  A parser is an operator  *)
(* from the input slice to a nom IResult, modelled as a record             *)
(*   [kind, rest, out]                                                     *)
(* with kind "Ok" (rest = remaining slice, out = value), or one of nom's   *)
(* three error kinds "Error" (recoverable: alt, many0 and fold_many1 catch *)
(* it), "Incomplete" and "Failure" (both propagate through every           *)
(* combinator).                                                            *)
(***************************************************************************)
EXTENDS Integers, Sequences, FiniteSets, TLC

VARIABLES input, gen, fn, pc, i, version, acc, res

vars == <<input, gen, fn, pc, i, version, acc, res>>

(***************************************************************************)
(* Slices and results                                                      *)
(***************************************************************************)
Take(s, n) == SubSeq(s, 1, n)

Drop(s, n) == SubSeq(s, n + 1, Len(s))

\* The one element of a singleton set.  A parser's result is bound once, as
\* the x of {stage(x) : x \in {result}}, and handed to the next stage.
Only(S) == CHOOSE x \in S : TRUE

NomOk(rest, out) == [kind |-> "Ok", rest |-> rest, out |-> out]

NomErr(kind) == [kind |-> kind, rest |-> <<>>, out |-> <<>>]

IsOk(r) == r.kind = "Ok"

(***************************************************************************)
(* nom primitives used by the parser                                       *)
(***************************************************************************)
\* tag with the last byte of the literal left uncompared.
tag_loose(name, s) ==
    IF Len(s) >= Len(name) /\ Take(s, Len(name) - 1) = Take(name, Len(name) - 1)
    THEN NomOk(Drop(s, Len(name)), name)
    ELSE NomErr("Error")

\* bytes::complete::tag: the literal must be a prefix of the input.
tag(name, s) ==
    IF Len(s) >= Len(name) /\ Take(s, Len(name)) = name
    THEN NomOk(Drop(s, Len(name)), name)
    ELSE NomErr("Error")

\* number::complete::le_u32.  The value is kept as its two 16-bit halves
\* (value = lo + 65536 * hi) so that all of 0 .. 2^32-1 is represented.
le_u32(s) ==
    IF Len(s) < 4 THEN NomErr("Error")
    ELSE NomOk(Drop(s, 4), [lo |-> s[1] + 256 * s[2], hi |-> s[3] + 256 * s[4]])

\* number::complete::le_i32: two's complement, little endian.
le_i32(s) ==
    IF Len(s) < 4 THEN NomErr("Error")
    ELSE NomOk(Drop(s, 4),
               s[1] + 256 * s[2] + 65536 * s[3]
               + 16777216 * (IF s[4] >= 128 THEN s[4] - 256 ELSE s[4]))

\* A u32 (as halves) compared with a slice length or a loop counter k < 65536.
U32IsZero(n) == n.hi = 0 /\ n.lo = 0

U32Equals(n, k) == n.hi = 0 /\ n.lo = k

U32Exceeds(n, k) == n.hi > 0 \/ n.lo > k

\* combinator::verify(le_u32, |&n| n != 0), applied to le_u32's result.
verify_nonzero(r) ==
    IF ~IsOk(r) THEN r
    ELSE IF U32IsZero(r.out) THEN NomErr("Error")
    ELSE r

\* A length_data that returns the bytes there are when too few remain.
length_data_short(r) ==
    IF ~IsOk(r) THEN r
    ELSE IF U32Exceeds(r.out, Len(r.rest)) THEN NomOk(<<>>, r.rest)
    ELSE NomOk(Drop(r.rest, r.out.lo), Take(r.rest, r.out.lo))

\* multi::length_data(f), applied to the result r of the length parser f:
\* too few bytes for the declared length is Err::Incomplete, not Err::Error.
length_data(r) ==
    IF ~IsOk(r) THEN r
    ELSE IF U32Exceeds(r.out, Len(r.rest)) THEN NomErr("Incomplete")
    ELSE NomOk(Drop(r.rest, r.out.lo), Take(r.rest, r.out.lo))

(***************************************************************************)
(* String::from_utf8_lossy: strings are sequences of Unicode scalar        *)
(* values; every maximal invalid byte sequence becomes U+FFFD.             *)
(***************************************************************************)
IsCont(s, k) == k <= Len(s) /\ s[k] >= 128 /\ s[k] <= 191

InRange(s, k, lo, hi) == k <= Len(s) /\ s[k] >= lo /\ s[k] <= hi

\* The first decoded character of a non-empty slice and the bytes it takes:
\* [ch, n].  An invalid sequence decodes to the replacement character.
Utf8First(s) ==
    LET b == s[1]
        bad(n) == [ch |-> 65533, n |-> n]
    IN  IF b < 128 THEN [ch |-> b, n |-> 1]
        ELSE IF b >= 194 /\ b <= 223 THEN
            IF IsCont(s, 2) THEN [ch |-> (b - 192) * 64 + (s[2] - 128), n |-> 2]
            ELSE bad(1)
        ELSE IF b >= 224 /\ b <= 239 THEN
            IF ~(\/ b = 224 /\ InRange(s, 2, 160, 191)
                 \/ b = 237 /\ InRange(s, 2, 128, 159)
                 \/ b \notin {224, 237} /\ IsCont(s, 2)) THEN bad(1)
            ELSE IF ~IsCont(s, 3) THEN bad(2)
            ELSE [ch |-> (b - 224) * 4096 + (s[2] - 128) * 64 + (s[3] - 128), n |-> 3]
        ELSE IF b >= 240 /\ b <= 244 THEN
            IF ~(\/ b = 240 /\ InRange(s, 2, 144, 191)
                 \/ b = 244 /\ InRange(s, 2, 128, 143)
                 \/ b \notin {240, 244} /\ IsCont(s, 2)) THEN bad(1)
            ELSE IF ~IsCont(s, 3) THEN bad(2)
            ELSE IF ~IsCont(s, 4) THEN bad(3)
            ELSE [ch |-> (b - 240) * 262144 + (s[2] - 128) * 4096
                         + (s[3] - 128) * 64 + (s[4] - 128), n |-> 4]
        ELSE bad(1)

\* A conversion that takes every byte for one character (Latin-1).
from_latin1(s) == s

\* The conversion, one character at a time: c is the first character of s.
RECURSIVE from_utf8_lossy(_)
RECURSIVE from_utf8_lossy_rest(_, _)
from_utf8_lossy_rest(s, c) ==
    Only({<<c.ch>> \o from_utf8_lossy(t) : t \in {Drop(s, c.n)}})

from_utf8_lossy(s) ==
    IF s = <<>> THEN <<>>
    ELSE Only({from_utf8_lossy_rest(s, c) : c \in {Utf8First(s)}})

(***************************************************************************)
(* entry and dict                                                          *)
(***************************************************************************)
\* HashMap<String, Vec<u8>> as a function from keys to values.
EmptyMap == [k \in {} |-> <<>>]

MapInsert(m, key, value) ==
    [k \in DOMAIN m \cup {key} |-> IF k = key THEN value ELSE m[k]]

\* A parser followed by a second one is written in stages: the operator
\* that runs the first parser hands its result to the operator that runs the
\* second on result.rest.  An error result has rest = <<>>, and the first
\* error in sequence order is the one returned.

\* map(tuple((key, value)), ..): both blobs read, the key converted.
entry_pair(k, v) ==
    IF ~IsOk(k) THEN k
    ELSE IF ~IsOk(v) THEN v
    ELSE NomOk(v.rest, [key |-> from_utf8_lossy(k.out), value |-> v.out])

\* length_data(le_u32): the value blob, after the key blob k.
entry_value(k) == Only({entry_pair(k, v) : v \in {length_data(le_u32(k.rest))}})

\* length_data(verify(le_u32, |&n| n != 0)): the key blob.
entry(s) == Only({entry_value(k) : k \in {length_data(verify_nonzero(le_u32(s)))}})

\* The loop of fold_many1 after the first entry: it stops, without
\* consuming, at the first Err::Error; any other error aborts the fold.
\* fold_next is the loop body given the result e of entry at slice s.
RECURSIVE fold_loop(_, _)
RECURSIVE fold_next(_, _, _)
fold_next(s, m, e) ==
    IF e.kind = "Error" THEN NomOk(s, m)
    ELSE IF ~IsOk(e) THEN e
    ELSE IF Len(e.rest) = Len(s) THEN NomErr("Failure")
    ELSE Only({fold_loop(e.rest, m2) : m2 \in {MapInsert(m, e.out.key, e.out.value)}})

fold_loop(s, m) == Only({fold_next(s, m, e) : e \in {entry(s)}})

\* The first application of a fold that accepts zero entries (fold_many0).
fold_first_many0(e) ==
    IF e.kind = "Error" THEN NomOk(<<>>, EmptyMap)
    ELSE IF ~IsOk(e) THEN e
    ELSE Only({fold_loop(e.rest, m) : m \in {MapInsert(EmptyMap, e.out.key, e.out.value)}})

\* fold_many1's first application of entry: at least one entry is required.
fold_first(e) ==
    IF e.kind = "Error" THEN NomErr("Error")
    ELSE IF ~IsOk(e) THEN e
    ELSE Only({fold_loop(e.rest, m) : m \in {MapInsert(EmptyMap, e.out.key, e.out.value)}})

\* fold_many1(entry, HashMap::new, insert)
dict(s) == Only({fold_first(e) : e \in {entry(s)}})

(***************************************************************************)
(* Chunks                                                                  *)
(***************************************************************************)
TagGox == <<71, 79, 88, 32>>

TagImg == <<73, 77, 71, 32>>

TagPrev == <<80, 82, 69, 86>>

TagBl16 == <<66, 76, 49, 54>>

TagLayr == <<76, 65, 89, 82>>

TagCamr == <<67, 65, 77, 82>>

TagLigh == <<76, 73, 71, 72>>

\* The six chunk kinds in the order alt tries them.
ChunkTags == <<TagImg, TagPrev, TagBl16, TagLayr, TagCamr, TagLigh>>

\* map(.., |dict| Chunk::X { dict }) for X = Img, Camr, Ligh.
dict_chunk(type, d) ==
    IF ~IsOk(d) THEN d ELSE NomOk(d.rest, [type |-> type, dict |-> d.out])

dict_sized(type, z) ==
    IF ~IsOk(z) THEN z ELSE Only({dict_chunk(type, d) : d \in {dict(z.rest)}})

\* preceded(le_u32, dict): the size field is read and dropped.
dict_body(type, s) == Only({dict_sized(type, z) : z \in {le_u32(s)}})

\* map(length_data(le_u32), |data| Chunk::X { data }) for X = Prev, Bl16.
blob_chunk(type, d) ==
    IF ~IsOk(d) THEN d ELSE NomOk(d.rest, [type |-> type, data |-> d.out])

blob_body(type, s) == Only({blob_chunk(type, d) : d \in {length_data(le_u32(s))}})

\* tuple((le_i32, le_i32, le_i32, le_i32, le_i32)) mapped to a Block: e is
\* the fifth field's result, read and dropped.
block_of(a, b, c, d, e) ==
    IF ~IsOk(e) THEN e
    ELSE NomOk(e.rest, [index |-> a.out, x |-> b.out, y |-> c.out, z |-> d.out])

\* A block record of four fields: the fifth is not read.
block5_short(a, b, c, d) == block_of(a, b, c, d, d)

block5(a, b, c, d) == Only({block_of(a, b, c, d, e) : e \in {le_i32(d.rest)}})

block4(a, b, c) == Only({block5(a, b, c, d) : d \in {le_i32(c.rest)}})

block3(a, b) == Only({block4(a, b, c) : c \in {le_i32(b.rest)}})

block2(a) == Only({block3(a, b) : b \in {le_i32(a.rest)}})

block(s) == Only({block2(a) : a \in {le_i32(s)}})

\* The loop of length_count(le_u32, block): n is the declared count, done the
\* number of records read so far; count_next is the loop body given the
\* result b of block at slice s.
RECURSIVE count_loop(_, _, _, _)
RECURSIVE count_next(_, _, _, _)
count_next(n, done, blocks, b) ==
    IF ~IsOk(b) THEN b
    ELSE count_loop(b.rest, n, done + 1, Append(blocks, b.out))

count_loop(s, n, done, blocks) ==
    IF U32Equals(n, done) THEN NomOk(s, blocks)
    ELSE Only({count_next(n, done, blocks, b) : b \in {block(s)}})

length_count_of(n) ==
    IF ~IsOk(n) THEN n ELSE count_loop(n.rest, n.out, 0, <<>>)

\* length_count(le_u32, block)
length_count_block(s) == Only({length_count_of(n) : n \in {le_u32(s)}})

\* map(.., |(blocks, dict)| Chunk::Layr { blocks, dict })
layr_chunk(b, d) ==
    IF ~IsOk(b) THEN b
    ELSE IF ~IsOk(d) THEN d
    ELSE NomOk(d.rest, [type |-> "Layr", blocks |-> b.out, dict |-> d.out])

layr_dict(b) == Only({layr_chunk(b, d) : d \in {dict(b.rest)}})

layr_sized(z) ==
    IF ~IsOk(z) THEN z ELSE Only({layr_dict(b) : b \in {length_count_block(z.rest)}})

\* preceded(le_u32, tuple((length_count(le_u32, block), dict)))
layr_body(s) == Only({layr_sized(z) : z \in {le_u32(s)}})

\* The body parser each chunk function hands to chunk_common.
body(name, s) ==
    CASE name = TagImg  -> dict_body("Img", s)
      [] name = TagPrev -> blob_body("Prev", s)
      [] name = TagBl16 -> blob_body("Bl16", s)
      [] name = TagLayr -> layr_body(s)
      [] name = TagCamr -> dict_body("Camr", s)
      [] name = TagLigh -> dict_body("Ligh", s)

\* terminated(.., le_u32): the trailing field c is read and dropped.
chunk_crc(p, c) ==
    IF ~IsOk(p) THEN p
    ELSE IF ~IsOk(c) THEN c
    ELSE NomOk(c.rest, p.out)

\* A chunk without the trailing field.
chunk_body_nocrc(p) == p

chunk_body(p) == Only({chunk_crc(p, c) : c \in {le_u32(p.rest)}})

chunk_tagged(name, t) ==
    IF ~IsOk(t) THEN t ELSE Only({chunk_body(p) : p \in {body(name, t.rest)}})

\* terminated(preceded(tag(name), parser), le_u32)
chunk_common(name, s) == Only({chunk_tagged(name, t) : t \in {tag(name, s)}})

img(s) == chunk_common(TagImg, s)

prev(s) == chunk_common(TagPrev, s)

bl16(s) == chunk_common(TagBl16, s)

layr(s) == chunk_common(TagLayr, s)

camr(s) == chunk_common(TagCamr, s)

ligh(s) == chunk_common(TagLigh, s)

\* alt((img, prev, bl16, layr, camr, ligh)): alt_next is given the result r
\* of the k-th alternative; the first result that is not Err::Error is
\* returned, and when all six fail the last Err::Error is.
RECURSIVE alt_from(_, _)
RECURSIVE alt_next(_, _, _)
alt_next(k, s, r) ==
    IF r.kind = "Error" /\ k < Len(ChunkTags) THEN alt_from(k + 1, s) ELSE r

alt_from(k, s) ==
    Only({alt_next(k, s, r) : r \in {CASE k = 1 -> img(s)
                                       [] k = 2 -> prev(s)
                                       [] k = 3 -> bl16(s)
                                       [] k = 4 -> layr(s)
                                       [] k = 5 -> camr(s)
                                       [] k = 6 -> ligh(s)}})

chunk(s) == alt_from(1, s)

(***************************************************************************)
(* parse                                                                   *)
(***************************************************************************)
\* The loop body of a many0 that reports the chunk parser's Err::Error
\* instead of ending the loop on it.
many0_next_strict(s, chunks, r) ==
    IF ~IsOk(r) THEN
        [stop |-> TRUE, res |-> r, rest |-> s, chunks |-> chunks]
    ELSE [stop |-> FALSE, res |-> NomErr("None"), rest |-> r.rest,
          chunks |-> Append(chunks, r.out)]

\* One iteration of many0(chunk) at slice s with the chunks so far in
\* chunks, given the result r of chunk(s): [stop, res, rest, chunks]; when
\* stop, res is many0's result.
many0_next(s, chunks, r) ==
    IF r.kind = "Error" THEN
        [stop |-> TRUE, res |-> NomOk(s, chunks), rest |-> s, chunks |-> chunks]
    ELSE IF ~IsOk(r) THEN
        [stop |-> TRUE, res |-> r, rest |-> s, chunks |-> chunks]
    ELSE IF Len(r.rest) = Len(s) THEN
        [stop |-> TRUE, res |-> NomErr("Error"), rest |-> s, chunks |-> chunks]
    ELSE [stop |-> FALSE, res |-> NomErr("None"), rest |-> r.rest,
          chunks |-> Append(chunks, r.out)]

many0_step(s, chunks) == Only({many0_next(s, chunks, r) : r \in {chunk(s)}})

RECURSIVE many0_chunk(_, _)
RECURSIVE many0_loop(_)
many0_loop(st) == IF st.stop THEN st.res ELSE many0_chunk(st.rest, st.chunks)

many0_chunk(s, chunks) == Only({many0_loop(st) : st \in {many0_step(s, chunks)}})

\* preceded(tag("GOX "), le_i32): the header, up to the chunk loop.
header_version(t) == IF ~IsOk(t) THEN t ELSE le_i32(t.rest)

header(s) == Only({header_version(t) : t \in {tag(TagGox, s)}})

\* A finished chunk loop mapped to a Goxel.
goxel(v, m) ==
    IF ~IsOk(m) THEN m
    ELSE NomOk(m.rest, [version |-> v, chunks |-> m.out])

parse_chunks(h) ==
    IF ~IsOk(h) THEN h ELSE Only({goxel(h.out, m) : m \in {many0_chunk(h.rest, <<>>)}})

parse(s) == Only({parse_chunks(h) : h \in {header(s)}})

(***************************************************************************)
(* Inputs.  Every input is a byte sequence built from the wire format's    *)
(* pieces; gen records how it was built, so that a result can be compared  *)
(* with what was encoded.                                                  *)
(***************************************************************************)
MaxChunks == 2

MaxTokens == 4

MaxEntries == 2

MaxBlocks == 2

MaxPayload == 2

MaxRaw == 4

SeqsUpTo(S, n) == UNION {[1..k -> S] : k \in 0..n}

RECURSIVE Flatten(_)
Flatten(ss) == IF ss = <<>> THEN <<>> ELSE Head(ss) \o Flatten(Tail(ss))

\* A length or count n < 65536 as a little-endian u32.
U32(n) == <<n % 256, (n \div 256) % 256, 0, 0>>

\* A 32-bit signed integer as its four little-endian bytes.
I32(v) ==
    LET u == IF v >= 0 THEN v ELSE v + 2147483647 + 1
        top == IF v >= 0 THEN 0 ELSE 128
    IN  <<u % 256, (u \div 256) % 256, (u \div 65536) % 256, (u \div 16777216) + top>>

\* A string (of scalar values) as UTF-8.
RECURSIVE Utf8(_)
Utf8(str) ==
    IF str = <<>> THEN <<>>
    ELSE LET c == Head(str)
             b == IF c < 128 THEN <<c>>
                  ELSE IF c < 2048 THEN <<192 + (c \div 64), 128 + (c % 64)>>
                  ELSE IF c < 65536 THEN
                      <<224 + (c \div 4096), 128 + ((c \div 64) % 64), 128 + (c % 64)>>
                  ELSE <<240 + (c \div 262144), 128 + ((c \div 4096) % 64),
                         128 + ((c \div 64) % 64), 128 + (c % 64)>>
         IN  b \o Utf8(Tail(str))

\* One encoded entry: keylen, key bytes, vallen, value bytes.
EncEntry(key, value) == U32(Len(key)) \o key \o U32(Len(value)) \o value

\* One length-prefixed blob: the length, then the bytes.
EncBlob(p) == U32(Len(p)) \o p

\* One 20-byte block record.
EncBlock(b) == I32(b.index) \o I32(b.x) \o I32(b.y) \o I32(b.z) \o I32(b.fifth)

\* The map with exactly the given entries (keys unique).
MapOf(es) ==
    [k \in {es[n].key : n \in DOMAIN es} |->
        es[CHOOSE n \in DOMAIN es : es[n].key = k].value]

\* The dictionary {"A": []} of the repository's fixture, and two more.
DictA == <<[key |-> <<65>>, value |-> <<>>]>>

DictB == <<[key |-> <<66>>, value |-> <<6>>]>>

DictAB == DictA \o DictB

EncDict(es) == Flatten([n \in DOMAIN es |-> EncEntry(Utf8(es[n].key), es[n].value)])

BlockOne == [index |-> 1, x |-> 2, y |-> -3, z |-> 4, fifth |-> 9]

Strip(b) == [index |-> b.index, x |-> b.x, y |-> b.y, z |-> b.z]

\* The chunk segments documents are built from.  class is "clean" for a
\* well-formed chunk a following chunk can start after, "crc" for a
\* well-formed dictionary chunk with a non-zero trailing field, "bad" for a
\* chunk whose tag is right and whose body is malformed, "unknown" for bytes
\* that start with no chunk tag.
SegLib ==
    << [class |-> "clean", crc |-> TRUE,
        bytes |-> TagImg \o U32(9) \o EncDict(DictA) \o U32(0),
        chunk |-> [type |-> "Img", dict |-> MapOf(DictA)]],
       [class |-> "clean", crc |-> TRUE,
        bytes |-> TagPrev \o U32(1) \o <<5>> \o U32(7),
        chunk |-> [type |-> "Prev", data |-> <<5>>]],
       [class |-> "clean", crc |-> TRUE,
        bytes |-> TagPrev \o U32(0) \o U32(0),
        chunk |-> [type |-> "Prev", data |-> <<>>]],
       [class |-> "clean", crc |-> TRUE,
        bytes |-> TagBl16 \o U32(2) \o <<1, 2>> \o U32(0),
        chunk |-> [type |-> "Bl16", data |-> <<1, 2>>]],
       [class |-> "clean", crc |-> TRUE,
        bytes |-> TagLayr \o U32(33) \o U32(1) \o EncBlock(BlockOne)
                  \o EncDict(DictA) \o U32(0),
        chunk |-> [type |-> "Layr", blocks |-> <<Strip(BlockOne)>>,
                   dict |-> MapOf(DictA)]],
       [class |-> "clean", crc |-> TRUE,
        bytes |-> TagCamr \o U32(10) \o EncDict(DictB) \o U32(0),
        chunk |-> [type |-> "Camr", dict |-> MapOf(DictB)]],
       [class |-> "clean", crc |-> TRUE,
        bytes |-> TagLigh \o U32(19) \o EncDict(DictAB) \o U32(0),
        chunk |-> [type |-> "Ligh", dict |-> MapOf(DictAB)]],
       [class |-> "crc", crc |-> TRUE,
        bytes |-> TagImg \o U32(9) \o EncDict(DictA) \o U32(1),
        chunk |-> [type |-> "Img", dict |-> MapOf(DictA)]],
       \* empty dictionary: the key-length field is 0
       [class |-> "bad", crc |-> FALSE,
        bytes |-> TagImg \o U32(4) \o U32(0) \o U32(0),
        chunk |-> <<>>],
       \* truncated blob: 2 bytes declared, 1 present
       [class |-> "bad", crc |-> FALSE,
        bytes |-> TagPrev \o U32(2) \o <<5>>,
        chunk |-> <<>>],
       \* too few block records: 1 declared, 8 bytes present
       [class |-> "bad", crc |-> FALSE,
        bytes |-> TagLayr \o U32(12) \o U32(1) \o I32(1) \o I32(2),
        chunk |-> <<>>],
       \* missing trailing 4-byte field
       [class |-> "bad", crc |-> FALSE,
        bytes |-> TagBl16 \o U32(1) \o <<5>>,
        chunk |-> <<>>],
       [class |-> "unknown", crc |-> FALSE,
        bytes |-> <<88, 88, 88, 88>> \o U32(0),
        chunk |-> <<>>] >>

Versions == {1, -2}

\* Bytes after the last segment: none, or bytes that start with no tag.
Tails == {<<>>, <<90, 90, 90, 90, 1>>}

BadMagics == {<<71, 79, 88, 0>>, <<103, 111, 120, 32>>, TagImg, <<32, 71, 79, 88>>}

RawBytes == {71, 79, 88, 32}

DictTokens == {U32(0), U32(1), <<65>>, <<255>>}

Keys == {<<65>>, <<233>>, <<65533>>, <<>>}

Values == {<<>>, <<0>>, <<1, 0, 0, 0>>}

Payloads == {p \in SeqsUpTo({7}, MaxPayload) : TRUE}

BlockRecs == [index : {1, -1}, x : {2}, y : {-3}, z : {70000}, fifth : {0, 9, -1}]

Cuts == {0, 1, 20}

TagOf(f) ==
    CASE f = "img" -> TagImg
      [] f = "prev" -> TagPrev
      [] f = "bl16" -> TagBl16
      [] f = "layr" -> TagLayr
      [] f = "camr" -> TagCamr
      [] f = "ligh" -> TagLigh

DocBytes(magic, v, segs, tail) ==
    magic \o I32(v) \o Flatten([n \in DOMAIN segs |-> SegLib[segs[n]].bytes]) \o tail

UniqueKeys(es) == \A m, n \in DOMAIN es : es[m].key = es[n].key => m = n

(***************************************************************************)
(* The state machine: one of the parser's functions is applied to input.   *)
(* parse runs in steps (the header, then one step per iteration of the     *)
(* chunk loop, with i and acc the loop's slice and vector); the other      *)
(* functions run in one step.                                              *)
(***************************************************************************)
Start(f, g, bytes) ==
    /\ fn = f
    /\ gen = g
    /\ input = bytes
    /\ pc = "start"
    /\ i = <<>>
    /\ version = 0
    /\ acc = <<>>
    /\ res = NomErr("None")

Init ==
    \/ \E v \in Versions, segs \in SeqsUpTo(DOMAIN SegLib, MaxChunks), tail \in Tails :
          Start("parse", [family |-> "doc", version |-> v, segs |-> segs, tail |-> tail],
                DocBytes(TagGox, v, segs, tail))
    \/ \E m \in BadMagics, segs \in SeqsUpTo({1, 2}, 1) :
          Start("parse", [family |-> "badmagic"], DocBytes(m, 1, segs, <<>>))
    \/ \E raw \in SeqsUpTo(RawBytes, MaxRaw) :
          Start("parse", [family |-> "raw"], raw)
    \/ \E f \in {"dict", "entry"}, toks \in SeqsUpTo(DictTokens, MaxTokens) :
          Start(f, [family |-> "tokens", body |-> Flatten(toks)], Flatten(toks))
    \/ \E f \in {"img", "camr", "ligh", "layr"}, size \in {9, 0},
          toks \in SeqsUpTo(DictTokens, MaxTokens) :
          Start(f, [family |-> "tokens", body |-> Flatten(toks)],
                TagOf(f) \o U32(size) \o (IF f = "layr" THEN U32(0) ELSE <<>>)
                \o Flatten(toks))
    \/ \E es \in SeqsUpTo([key : Keys, value : Values], MaxEntries) :
          /\ es # <<>>
          /\ UniqueKeys(es)
          /\ Start("dict", [family |-> "roundtrip", entries |-> es], EncDict(es))
    \/ \E p \in Payloads, cut \in 0..(MaxPayload + 4) :
          /\ cut <= Len(EncBlob(p))
          /\ Start("blob", [family |-> "trunc", payload |-> p, cut |-> cut],
                   Take(EncBlob(p), Len(EncBlob(p)) - cut))
    \/ \E f \in {"prev", "bl16"}, p \in Payloads, cut \in 0..(MaxPayload + 4) :
          /\ cut <= Len(EncBlob(p))
          /\ Start(f, [family |-> "trunc", payload |-> p, cut |-> cut],
                   TagOf(f) \o Take(EncBlob(p), Len(EncBlob(p)) - cut)
                   \o (IF cut = 0 THEN U32(0) ELSE <<>>))
    \/ \E k \in {<<65>>, <<65, 66>>, <<255>>}, p \in Payloads,
          cut \in 0..(MaxPayload + 10) :
          /\ cut <= Len(EncEntry(k, p))
          /\ Start("entry", [family |-> "trunc", key |-> k, payload |-> p,
                             cut |-> cut],
                   Take(EncEntry(k, p), Len(EncEntry(k, p)) - cut))
    \/ \E bs \in SeqsUpTo(BlockRecs, MaxBlocks), cut \in Cuts, size \in {0, 33} :
          LET recs == Flatten([n \in DOMAIN bs |-> EncBlock(bs[n])])
          IN  /\ cut <= Len(recs)
              /\ Start("layr", [family |-> "layr", blocks |-> bs, cut |-> cut],
                       TagLayr \o U32(size) \o U32(Len(bs))
                       \o (IF cut = 0 THEN recs \o EncDict(DictA) \o U32(0)
                           ELSE Take(recs, Len(recs) - cut)))

Finish(r) ==
    /\ pc' = "done"
    /\ res' = r
    /\ UNCHANGED <<input, gen, fn, i, version, acc>>

HeaderDone(h) ==
    IF ~IsOk(h) THEN Finish(h)
    ELSE /\ pc' = "chunks"
         /\ version' = h.out
         /\ i' = h.rest
         /\ acc' = <<>>
         /\ UNCHANGED <<input, gen, fn, res>>

StepDone(st) ==
    IF st.stop THEN Finish(goxel(version, st.res))
    ELSE /\ i' = st.rest
         /\ acc' = st.chunks
         /\ UNCHANGED <<input, gen, fn, pc, version, res>>

\* parse, up to the chunk loop: the magic and the version.
ParseHeader ==
    /\ fn = "parse"
    /\ pc = "start"
    /\ \E h \in {header(input)} : HeaderDone(h)

\* One iteration of many0(chunk); the last one maps the result to a Goxel.
ParseChunk ==
    /\ pc = "chunks"
    /\ \E st \in {many0_step(i, acc)} : StepDone(st)

CallEntry == fn = "entry" /\ pc = "start" /\ \E r \in {entry(input)} : Finish(r)

CallDict == fn = "dict" /\ pc = "start" /\ \E r \in {dict(input)} : Finish(r)

CallImg == fn = "img" /\ pc = "start" /\ \E r \in {img(input)} : Finish(r)

\* The body parser of prev and bl16, map(length_data(le_u32), ..), alone.
CallBlob == fn = "blob" /\ pc = "start" /\ \E r \in {blob_body("Prev", input)} : Finish(r)

CallPrev == fn = "prev" /\ pc = "start" /\ \E r \in {prev(input)} : Finish(r)

CallBl16 == fn = "bl16" /\ pc = "start" /\ \E r \in {bl16(input)} : Finish(r)

CallLayr == fn = "layr" /\ pc = "start" /\ \E r \in {layr(input)} : Finish(r)

CallCamr == fn = "camr" /\ pc = "start" /\ \E r \in {camr(input)} : Finish(r)

CallLigh == fn = "ligh" /\ pc = "start" /\ \E r \in {ligh(input)} : Finish(r)

Next ==
    \/ ParseHeader
    \/ ParseChunk
    \/ CallEntry
    \/ CallDict
    \/ CallImg
    \/ CallBlob
    \/ CallPrev
    \/ CallBl16
    \/ CallLayr
    \/ CallCamr
    \/ CallLigh

Spec == Init /\ [][Next]_vars

\* parse is a synchronous loop: a step that can be taken is taken.
FairSpec == Spec /\ WF_vars(Next)

TypeOK ==
    /\ pc \in {"start", "chunks", "done"}
    /\ res.kind \in {"None", "Ok", "Error", "Incomplete", "Failure"}
    /\ (pc = "done") = (res.kind # "None")

(***************************************************************************)
(* Properties                                                              *)
(***************************************************************************)
Done(f) == pc = "done" /\ fn = f

BeginsWithMagic(s) == Len(s) >= 4 /\ Take(s, 4) = TagGox

\* One of the six chunk tags is at the start of the slice.
TagMatches(s) == \E k \in DOMAIN ChunkTags : IsOk(tag(ChunkTags[k], s))

IsSuffix(s, whole) == Len(s) <= Len(whole) /\ s = Drop(whole, Len(whole) - Len(s))

\* The number of leading segments of class "clean".
RECURSIVE CleanPrefix(_)
CleanPrefix(segs) ==
    IF segs = <<>> \/ SegLib[Head(segs)].class # "clean" THEN 0
    ELSE 1 + CleanPrefix(Tail(segs))

SegChunks(segs, k) == [n \in 1..k |-> SegLib[segs[n]].chunk]

SegBytes(segs, k) == Flatten([n \in 1..k |-> SegLib[segs[n]].bytes])

\* C1: when the loop of parse stops at a slice where a chunk tag matches
\* (so that chunk's body decoder, or its trailing field, failed), parse
\* fails: it does not return a Document of the chunks before it.
C1_MalformedChunkFailsParse ==
    (Done("parse") /\ TagMatches(i) /\ ~IsOk(chunk(i))) => ~IsOk(res)

\* C2: when parse, past the magic and the version, stops at a slice where no
\* chunk tag matches, it succeeds with the encoded version, the chunks decoded
\* so far in order, and that slice as the remainder; a document of clean
\* chunks followed by no tag yields exactly those chunks.
C2_NoTagEndsLoop ==
    (Done("parse") /\ BeginsWithMagic(input) /\ Len(input) >= 8 /\ ~TagMatches(i)) =>
        /\ IsOk(res)
        /\ res.out.chunks = acc
        /\ res.rest = i
        /\ IsSuffix(i, input)
        /\ gen.family = "doc" =>
              /\ res.out.version = gen.version
              /\ LET k == CleanPrefix(gen.segs)
                 IN  (k = Len(gen.segs) \/ SegLib[gen.segs[k + 1]].class = "unknown") =>
                        /\ res.out.chunks = SegChunks(gen.segs, k)
                        /\ res.rest = Drop(input, 8 + Len(SegBytes(gen.segs, k)))
                        /\ (gen.segs = <<>> => res.out.chunks = <<>>)

C2_Witness ==
    /\ Done("parse")
    /\ gen.family = "doc"
    /\ gen.version < 0
    /\ CleanPrefix(gen.segs) = 2
    /\ gen.tail # <<>>
    /\ ~TagMatches(i)
    /\ IsOk(res)
    /\ Len(res.out.chunks) = 2
    /\ res.rest = gen.tail

\* C3: an input that does not begin with "GOX " makes parse fail, with no
\* Document and without entering the chunk loop.
C3_BadMagicFails ==
    (fn = "parse" /\ ~BeginsWithMagic(input)) =>
        /\ pc # "chunks"
        /\ pc = "done" => (res.kind = "Error" /\ acc = <<>>)

C3_Witness ==
    /\ Done("parse")
    /\ gen.family = "badmagic"
    /\ Len(input) > 8
    /\ Take(input, 3) = Take(TagGox, 3)
    /\ res.kind = "Error"

\* The chunks of a Document that carry a dictionary.
HasDict(c) == c.type \in {"Img", "Layr", "Camr", "Ligh"}

\* C4: a dictionary that was decoded has at least one entry, alone, in its
\* chunk and in a Document; and when the first entry attempt on the bytes
\* where the dictionary starts fails, dict and the chunk decoder fail.
C4_NoEmptyDictionary ==
    /\ (Done("dict") /\ IsOk(res)) => DOMAIN res.out # {}
    /\ (pc = "done" /\ fn \in {"img", "layr", "camr", "ligh"} /\ IsOk(res)) =>
          DOMAIN res.out.dict # {}
    /\ (Done("parse") /\ IsOk(res)) =>
          \A n \in DOMAIN res.out.chunks :
              HasDict(res.out.chunks[n]) => DOMAIN res.out.chunks[n].dict # {}
    /\ (/\ pc = "done"
        /\ fn \in {"dict", "img", "layr", "camr", "ligh"}
        /\ gen.family = "tokens"
        /\ ~IsOk(entry(gen.body))) => ~IsOk(res)

C4_Witness ==
    /\ Done("layr")
    /\ gen.family = "tokens"
    /\ Len(gen.body) > 4
    /\ Take(gen.body, 4) = U32(0)
    /\ res.kind = "Error"

\* C5: "IMG " + size + keylen 1 + 'A' + vallen 0 + any 4 trailing bytes
\* decodes to Img {"A": []} with nothing left.
C5_FixtureAnyTrailingBytes ==
    (/\ Done("img")
     /\ gen.family = "tokens"
     /\ Len(gen.body) = 13
     /\ Take(gen.body, 9) = EncDict(DictA)) =>
        /\ IsOk(res)
        /\ res.out = [type |-> "Img", dict |-> MapOf(DictA)]
        /\ res.rest = <<>>

NonEmptyKeys(es) == \A n \in DOMAIN es : es[n].key # <<>>

\* C6 as stated: dict on the encoded entries of any dictionary of N >= 1
\* unique keys, in any order, returns that dictionary.
C6_RoundTripAnyKeys ==
    (Done("dict") /\ gen.family = "roundtrip") =>
        /\ IsOk(res)
        /\ res.out = MapOf(gen.entries)

\* C6 as amended: dict on the encoded entries of any dictionary of N >= 1
\* unique non-empty keys, in any order, returns that dictionary and consumes
\* all the bytes.
C6_RoundTripNonEmptyKeys ==
    (Done("dict") /\ gen.family = "roundtrip" /\ NonEmptyKeys(gen.entries)) =>
        /\ IsOk(res)
        /\ res.out = MapOf(gen.entries)
        /\ res.rest = <<>>

C6_Witness ==
    /\ Done("dict")
    /\ gen.family = "roundtrip"
    /\ Len(gen.entries) = MaxEntries
    /\ gen.entries[1].key = <<65>>
    /\ gen.entries[2].key = <<233>>
    /\ gen.entries[2].value # <<>>
    /\ IsOk(res)
    /\ DOMAIN res.out = {gen.entries[n].key : n \in 1..MaxEntries}

\* C7: a well-formed blob or entry with one or more trailing bytes removed
\* makes the blob decoder, the chunk around it and the entry decoder fail;
\* untruncated, they return the encoded bytes.
C7_TruncationFails ==
    (pc = "done" /\ gen.family = "trunc") =>
        /\ gen.cut > 0 => ~IsOk(res)
        /\ gen.cut = 0 =>
              /\ IsOk(res)
              /\ res.rest = <<>>
              /\ fn = "entry" => res.out.value = gen.payload
              /\ fn # "entry" => res.out.data = gen.payload

C7_Witness ==
    /\ Done("entry")
    /\ gen.family = "trunc"
    /\ gen.cut = 1
    /\ Len(gen.payload) = MaxPayload
    /\ res.kind = "Incomplete"

StripAll(bs) == [n \in DOMAIN bs |-> Strip(bs[n])]

\* C8: a layer chunk declaring K blocks, with K records present, decodes to
\* those K blocks in order (index, x, y, z; the fifth field ignored) and the
\* dictionary that follows them, the block sequence ending exactly K * 20
\* bytes after the count; with fewer than K * 20 bytes after the count it
\* fails.
C8_LayerBlocks ==
    (Done("layr") /\ gen.family = "layr") =>
        /\ gen.cut = 0 =>
              /\ IsOk(res)
              /\ res.out.blocks = StripAll(gen.blocks)
              /\ res.out.dict = MapOf(DictA)
              /\ res.rest = <<>>
              /\ length_count_block(Drop(input, 8)).rest
                    = Drop(input, 12 + 20 * Len(gen.blocks))
        /\ gen.cut > 0 => ~IsOk(res)

C8_Witness ==
    /\ Done("layr")
    /\ gen.family = "layr"
    /\ gen.cut = 0
    /\ Len(gen.blocks) = MaxBlocks
    /\ gen.blocks[1].fifth = -1
    /\ gen.blocks[2].fifth = 9
    /\ gen.blocks[1].index = -1
    /\ IsOk(res)
    /\ Len(res.out.blocks) = MaxBlocks

\* The offset in a document of the trailing field of its k-th segment.
CrcOffset(segs, k) == 8 + Len(SegBytes(segs, k)) - 4

WithCrc(s, off, c) == Take(s, off) \o c \o Drop(s, off + 4)

WellFormed(segs) == \A n \in DOMAIN segs : SegLib[segs[n]].crc

CrcWords == {U32(0), U32(1), <<255, 255, 255, 255>>}

\* C9: the result of parse on a document of well-formed chunks does not
\* depend on the bytes of any chunk's trailing field.
C9_CrcIgnored ==
    (Done("parse") /\ gen.family = "doc" /\ WellFormed(gen.segs)) =>
        \A k \in DOMAIN gen.segs, c \in CrcWords :
            LET other == parse(WithCrc(input, CrcOffset(gen.segs, k), c))
            IN  /\ other.kind = res.kind
                /\ IsOk(res) => other.out = res.out

\* C10: every iteration of the chunk loop that decodes a chunk shortens the
\* slice by at least 12 bytes, the slice is always a suffix of the input, at
\* most (length - 8) / 12 chunks are decoded, and parse stops.
C10_LoopTerminates ==
    /\ [][(pc = "chunks" /\ pc' = "chunks") => Len(i') + 12 <= Len(i)]_vars
    /\ [](fn = "parse" => IsSuffix(i, input))
    /\ [](fn = "parse" => (acc = <<>> \/ 12 * Len(acc) + 8 <= Len(input)))
    /\ [](fn = "parse" => <>(pc = "done"))

C10_Witness ==
    /\ Done("parse")
    /\ IsOk(res)
    /\ Len(acc) = MaxChunks
    /\ Len(input) = 8 + 12 * MaxChunks

====
